---- MODULE Spec2Model ----
(***************************************************************************)
(* Model of the fusion core of lex-kernel-oracle:                          *)
(*   AdaptiveSpectralKernel  (src/src/adaptive_spectral_kernel.py)         *)
(*   TemporalAdaptiveKernel  (src/src/temporal_kernel.py)                  *)
(*   HybridKernel            (src/src/temporal_kernel.py)                  *)
(*                                                                         *)
(* Numbers.  Samples are integers.  Every real vector the code computes    *)
(* is kept as an exact rational vector [num |-> <<..>>, den |-> d] in      *)
(* lowest terms, so equal values have equal representations.  A Euclidean  *)
(* norm is kept by its square.  np.exp is a fixed-point function on a      *)
(* grid of ExpScale steps; the median of an even number of norms needs one *)
(* integer square root.  An absent value (None) is <<>> and a present      *)
(* value v is <<v>>.                                                       *)
(***************************************************************************)
EXTENDS Integers, Sequences, FiniteSets

VARIABLES
    engine,         \* which engine object this run constructs and drives
    cfg,            \* constructor arguments of that engine
    bk,             \* AdaptiveSpectralKernel instance: last_tau, last_weights
    tk,             \* TemporalAdaptiveKernel instance
    mode,           \* HybridKernel.mode
    recent_drifts,  \* HybridKernel.recent_drifts
    ref,            \* a stand-alone TemporalAdaptiveKernel fed the same batches,
                    \* and what its last update returned
    arg,            \* argument of the last call
    ret,            \* outcome of the last call
    hist            \* the caller's log: calls made, successful updates, drift outcomes

vars == <<engine, cfg, bk, tk, mode, recent_drifts, ref, arg, ret, hist>>

----------------------------------------------------------------------------
(* Bounds of the model *)

\* the largest offset of a source from the base signal
MaxVal == 5
\* number of calls made on one temporal or hybrid engine
MaxCalls == 4
\* number of calls made on one batch engine
MaxFits == 2
\* resolution of the fixed-point exponential: exp(0) == ExpScale
ExpScale == 10000

----------------------------------------------------------------------------
(* Arithmetic *)

\* a vector with its elements computed (a function constructor is evaluated on demand)
Vec(f) == f \o <<>>

Abs(x) == IF x < 0 THEN -x ELSE x

RECURSIVE Gcd(_, _)
Gcd(a, b) == IF b = 0 THEN Abs(a) ELSE Gcd(b, a % b)

RECURSIVE SumSeq(_)
SumSeq(s) == IF s = <<>> THEN 0 ELSE Head(s) + SumSeq(Tail(s))

RECURSIVE GcdSeq(_)
GcdSeq(s) == IF s = <<>> THEN 0 ELSE Gcd(Head(s), GcdSeq(Tail(s)))

\* a rational vector in lowest terms with a positive denominator
Rat(num, den) ==
    LET g == Gcd(GcdSeq(num), den)
        h == IF g = 0 THEN 1 ELSE g
    IN  [num |-> Vec([i \in 1..Len(num) |-> num[i] \div h]), den |-> den \div h]

\* floor of the square root, by bisection on lo..hi
RECURSIVE ISqrtIn(_, _, _)
ISqrtIn(n, lo, hi) ==
    IF lo >= hi THEN lo
    ELSE LET mid == (lo + hi + 1) \div 2
         IN  IF mid * mid <= n THEN ISqrtIn(n, mid, hi) ELSE ISqrtIn(n, lo, mid - 1)

ISqrt(n) == ISqrtIn(n, 0, IF n < 46340 THEN n ELSE 46340)

\* sqrt(a) * sqrt(b), rounded down; exact when a = b or one of them is 0
SqrtProd(a, b) ==
    IF a = b THEN a
    ELSE IF a < 46340 /\ b < 46340 THEN ISqrt(a * b)
    ELSE ISqrt(a) * ISqrt(b)

\* np.sort of a one-dimensional array
RECURSIVE Insert(_, _)
Insert(x, s) ==
    IF s = <<>> THEN <<x>>
    ELSE IF x <= Head(s) THEN <<x>> \o s ELSE <<Head(s)>> \o Insert(x, Tail(s))

RECURSIVE np_sort(_)
np_sort(s) == IF s = <<>> THEN <<>> ELSE Insert(Head(s), np_sort(Tail(s)))

\* np.exp(-p/q) on the grid: powers of exp(-1/8) ~ 0.8825, rounded down at
\* every step, so that it underflows to 0 for large arguments as a float does
RECURSIVE ExpTable(_, _)
ExpTable(tab, e) ==
    IF e = 0 THEN Append(tab, 0)
    ELSE ExpTable(Append(tab, e), (e * 8825) \div 10000)

ExpTab == ExpTable(<<>>, ExpScale)

ExpNeg(p, q) ==
    LET k == (p * 8) \div q
    IN  IF k + 1 > Len(ExpTab) THEN 0 ELSE ExpTab[k + 1]

----------------------------------------------------------------------------
(* np.array(signals): shape of the argument *)

Rows(signals) == signals.data

\* a list of scalars, an empty list and a ragged list are not 2-D (a ragged
\* list is a 1-D object array, or np.array itself raises ValueError)
ndim(signals) ==
    IF signals.kind = "1d" \/ Rows(signals) = <<>> THEN 1
    ELSE IF \A i \in 1..Len(Rows(signals)) :
                Len(Rows(signals)[i]) = Len(Rows(signals)[1]) THEN 2
    ELSE 1

n_signals(signals) == Len(Rows(signals))
n_samples(signals) == Len(Rows(signals)[1])

Column(rows, t) == Vec([i \in 1..Len(rows) |-> rows[i][t]])

----------------------------------------------------------------------------
(* AdaptiveSpectralKernel *)

\* np.median of a one-dimensional array, times 2 (the mean of the two middle
\* values has a half)
Median2(s) ==
    LET srt == np_sort(s)
        n   == Len(s)
    IN  IF n % 2 = 1 THEN 2 * srt[(n + 1) \div 2]
        ELSE srt[n \div 2] + srt[n \div 2 + 1]

\* the mean at every sample instead of the median
robust_center_mean(rows) ==
    Rat(Vec([t \in 1..Len(rows[1]) |-> SumSeq(Column(rows, t))]), Len(rows))

robust_center_median(rows) ==
    Rat(Vec([t \in 1..Len(rows[1]) |-> Median2(Column(rows, t))]), 2)

\* a trimmed mean that discards nothing
trim_count_none(n) == 0

\* int(n * 0.2)
trim_count(n) == n \div 5

robust_center_trimmed_mean(rows) ==
    LET n    == Len(rows)
        trim == trim_count(n)
        kept(t) == IF trim > 0
                   THEN SubSeq(np_sort(Column(rows, t)), trim + 1, n - trim)
                   ELSE np_sort(Column(rows, t))
    IN  Rat(Vec([t \in 1..Len(rows[1]) |-> SumSeq(kept(t))]), n - 2 * trim)

\* np.linalg.norm(u - v) squared; u and v broadcast as numpy arrays do (an
\* array of length 1 stretches to the length of the other)
NormSq(u, v) ==
    LET L == IF Len(u) = 1 THEN Len(v) ELSE Len(u)
        at(s, t) == IF Len(s) = 1 THEN s[1] ELSE s[t]
        sq(x) == x * x
    IN  SumSeq(Vec([t \in 1..L |-> sq(at(u, t) - at(v, t))]))

Scaled(sig, k) == Vec([t \in 1..Len(sig) |-> sig[t] * k])

\* squares of the L2 norms ||sig - center||, in units of 1/center.den^2
compute_distances(rows, center) ==
    Vec([i \in 1..Len(rows) |-> NormSq(Scaled(rows[i], center.den), center.num)])

\* (2 * np.median(d))^2 for the norms d whose squares are dsq
MedianSq4(dsq) ==
    LET srt == np_sort(dsq)
        n   == Len(dsq)
        a   == srt[n \div 2]
        b   == srt[n \div 2 + 1]
    IN  IF n % 2 = 1 THEN 4 * srt[(n + 1) \div 2]
        ELSE a + b + 2 * SqrtProd(a, b)

\* tau^2 for tau = alpha * np.median(d), the squared norms being in units of 1/unit
TauSq(alpha, dsq, unit) ==
    Rat(<<alpha.num * alpha.num * MedianSq4(dsq)>>, alpha.den * alpha.den * 4 * unit)

\* a kernel of fixed width: tau = alpha, whatever the distances are
Gauss_fixed_width(alpha, dsq) ==
    Vec([i \in 1..Len(dsq) |->
        ExpNeg(alpha.den * alpha.den * dsq[i], 2 * alpha.num * alpha.num)])

\* np.exp(-dsq / (2 tau^2)): the unit cancels
Gauss(alpha, dsq) ==
    LET m4 == MedianSq4(dsq)
    IN  Vec([i \in 1..Len(dsq) |->
            ExpNeg(2 * alpha.den * alpha.den * dsq[i], alpha.num * alpha.num * m4)])

Ones(n) == Vec([i \in 1..n |-> 1])

\* compute_weights without the division by weights.sum()
compute_weights_unnormalised(alpha, dsq) ==
    IF MedianSq4(dsq) = 0
    THEN Rat(Ones(Len(dsq)), Len(dsq))
    ELSE Rat(Gauss(alpha, dsq), ExpScale)

\* distances given by their squares, tau by TauSq
compute_weights(alpha, dsq) ==
    IF MedianSq4(dsq) = 0
    THEN Rat(Ones(Len(dsq)), Len(dsq))
    ELSE LET w == Gauss(alpha, dsq) IN Rat(w, SumSeq(w))

\* exp(-2 pi i m / T) for T in {1, 2, 4}, as <<re, im>>
Twiddle(T, m) ==
    LET q == (m * (4 \div T)) % 4
    IN  IF q = 0 THEN <<1, 0>> ELSE IF q = 1 THEN <<0, -1>>
        ELSE IF q = 2 THEN <<-1, 0>> ELSE <<0, 1>>

CMul(a, b) == <<a[1] * b[1] - a[2] * b[2], a[1] * b[2] + a[2] * b[1]>>

RECURSIVE CSum(_)
CSum(s) == IF s = <<>> THEN <<0, 0>>
           ELSE LET r == CSum(Tail(s)) IN <<Head(s)[1] + r[1], Head(s)[2] + r[2]>>

\* scipy.fft.fft: unnormalised forward transform of a real signal
fft(sig) ==
    LET T == Len(sig)
    IN  Vec([k \in 1..T |->
            CSum(Vec([j \in 1..T |-> CMul(<<sig[j], 0>>, Twiddle(T, (j - 1) * (k - 1)))]))])

\* T * scipy.fft.ifft(spec): the 1/T is applied by the caller
ifftT(spec) ==
    LET T == Len(spec)
        conj(z) == <<z[1], -z[2]>>
    IN  Vec([j \in 1..T |->
            CSum(Vec([k \in 1..T |-> CMul(spec[k], conj(Twiddle(T, (j - 1) * (k - 1))))]))])

\* fft_fusion with an inverse transform that does not divide by the length
fft_fusion_unscaled(rows, weights) ==
    LET n == Len(rows)
        T == Len(rows[1])
        spectra == Vec([i \in 1..n |-> fft(rows[i])])
        wsum == Vec([k \in 1..T |->
                    CSum(Vec([i \in 1..n |->
                        CMul(<<weights.num[i], 0>>, spectra[i][k])]))])
        back == ifftT(wsum)
    IN  Rat(Vec([j \in 1..T |-> back[j][1]]), SumSeq(weights.num))

\* np.real(ifft(np.average(spectra, axis=0, weights=weights)))
fft_fusion(rows, weights) ==
    LET n == Len(rows)
        T == Len(rows[1])
        spectra == Vec([i \in 1..n |-> fft(rows[i])])
        wsum == Vec([k \in 1..T |->
                    CSum(Vec([i \in 1..n |->
                        CMul(<<weights.num[i], 0>>, spectra[i][k])]))])
        back == ifftT(wsum)
    IN  Rat(Vec([j \in 1..T |-> back[j][1]]), T * SumSeq(weights.num))

\* what a call gives back: an exception or a result, and the object's new state
Raised(exc, self) ==
    [status |-> exc, self |-> self, K_w |-> <<>>, weights |-> <<>>]

Returned(self, K_w, weights) ==
    [status |-> "ok", self |-> self, K_w |-> <<K_w>>, weights |-> <<weights>>]

\* fit, the end: self.last_tau, self.last_weights and the returned pair
fit_fusion(rows, tau, weights) ==
    [status |-> "ok",
     self |-> [last_tau |-> <<tau>>, last_weights |-> <<weights>>],
     K_w |-> <<fft_fusion(rows, weights)>>,
     weights |-> <<weights>>]

\* fit, steps 3 to 5: tau, the weights, the fusion, and what is recorded
fit_weights(alpha, rows, robust_center, distances) ==
    fit_fusion(rows,
               TauSq(alpha, distances, robust_center.den * robust_center.den),
               compute_weights(alpha, distances))

\* fit, steps 1 and 2: the robust center and the distances from it
fit_center(alpha, rows, robust_center) ==
    fit_weights(alpha, rows, robust_center, compute_distances(rows, robust_center))

\* fit without the check of the number of signals
fit_any_count(self, alpha, method, signals) ==
    IF ndim(signals) # 2 THEN Raised("ValueError", self)
    ELSE IF n_samples(signals) < 2 THEN Raised("ValueError", self)
    ELSE fit_center(alpha, Rows(signals),
                    IF method = "median"
                    THEN robust_center_median(Rows(signals))
                    ELSE robust_center_trimmed_mean(Rows(signals)))

\* fit that starts from the weights of the previous call when the number of
\* sources is the same
fit_warm_start(self, alpha, method, signals) ==
    IF ndim(signals) # 2 THEN Raised("ValueError", self)
    ELSE IF n_signals(signals) < 2 THEN Raised("ValueError", self)
    ELSE IF n_samples(signals) < 2 THEN Raised("ValueError", self)
    ELSE IF /\ self.last_weights # <<>>
            /\ Len(self.last_weights[1].num) = n_signals(signals)
         THEN fit_fusion(Rows(signals), self.last_tau[1], self.last_weights[1])
    ELSE fit_center(alpha, Rows(signals),
                    IF method = "median"
                    THEN robust_center_median(Rows(signals))
                    ELSE robust_center_trimmed_mean(Rows(signals)))

\* AdaptiveSpectralKernel.fit on the instance self = [last_tau, last_weights]
fit(self, alpha, method, signals) ==
    IF ndim(signals) # 2 THEN Raised("ValueError", self)
    ELSE IF n_signals(signals) < 2 THEN Raised("ValueError", self)
    ELSE IF n_samples(signals) < 2 THEN Raised("ValueError", self)
    ELSE fit_center(alpha, Rows(signals),
                    IF method = "median"
                    THEN robust_center_median(Rows(signals))
                    ELSE robust_center_trimmed_mean(Rows(signals)))

----------------------------------------------------------------------------
(* TemporalAdaptiveKernel *)

\* two one-dimensional shapes numpy can broadcast against each other
Broadcastable(a, b) == a = b \/ a = 1 \/ b = 1

robust_center(method, rows) ==
    IF method = "median"
    THEN Rat(Vec([t \in 1..Len(rows[1]) |-> Median2(Column(rows, t))]), 2)
    ELSE LET n    == Len(rows)
             trim == n \div 5
             kept(t) == IF trim > 0
                        THEN SubSeq(np_sort(Column(rows, t)), trim + 1, n - trim)
                        ELSE np_sort(Column(rows, t))
         IN  Rat(Vec([t \in 1..Len(rows[1]) |-> SumSeq(kept(t))]), n - 2 * trim)

\* beta * center_prev + (1 - beta) * center_curr, the two broadcast
blend(beta, p, center_curr) ==
    LET L == IF Len(p.num) = 1 THEN Len(center_curr.num) ELSE Len(p.num)
        at(v, t) == IF Len(v) = 1 THEN v[1] ELSE v[t]
    IN  Rat(Vec([t \in 1..L |->
                beta.num * at(p.num, t) * center_curr.den
                + (beta.den - beta.num) * at(center_curr.num, t) * p.den]),
            beta.den * p.den * center_curr.den)

\* the center of the current batch alone, whatever was retained
temporal_center_unblended(beta, method, rows, center_prev) ==
    robust_center(method, rows)

temporal_center(beta, method, rows, center_prev) ==
    IF center_prev = <<>> THEN robust_center(method, rows)
    ELSE blend(beta, center_prev[1], robust_center(method, rows))

\* spatial_dist**2 + lambda_jitter * jitter**2, in units of
\* 1 / (center.den^2 * lambda_jitter.den)
compute_temporal_distances(lambda_jitter, rows, center, signals_prev) ==
    LET n == Len(rows)
        spatial_sq == Vec([i \in 1..n |->
                          NormSq(Scaled(rows[i], center.den), center.num)])
        jitter_sq  == IF signals_prev # <<>>
                      THEN Vec([i \in 1..n |-> NormSq(rows[i], signals_prev[1][i])])
                      ELSE Vec([i \in 1..n |-> 0])
    IN  Vec([i \in 1..n |->
            lambda_jitter.den * spatial_sq[i]
            + lambda_jitter.num * jitter_sq[i] * center.den * center.den])

\* weights that fall back to uniform at every other call made in the
\* process, whichever engine is called
temporal_compute_weights_shared(alpha, distances) ==
    IF hist.calls % 2 = 1 \/ MedianSq4(distances) = 0
    THEN Rat(Ones(Len(distances)), Len(distances))
    ELSE LET w == Gauss(alpha, distances) IN Rat(w, SumSeq(w))

\* distances given as they are (already squared), tau by TauSq
temporal_compute_weights(alpha, distances) ==
    IF MedianSq4(distances) = 0
    THEN Rat(Ones(Len(distances)), Len(distances))
    ELSE LET w == Gauss(alpha, distances) IN Rat(w, SumSeq(w))

\* np.any(weights < drift_threshold)
detect_drift(weights, drift_threshold) ==
    \E i \in 1..Len(weights.num) :
        weights.num[i] * drift_threshold.den < drift_threshold.num * weights.den

\* np.where(weights < drift_threshold)[0].tolist(): indices count from 0
RECURSIVE outliers_upto(_, _, _)
outliers_upto(weights, drift_threshold, n) ==
    IF n = 0 THEN <<>>
    ELSE LET rest == outliers_upto(weights, drift_threshold, n - 1)
         IN  IF weights.num[n] * drift_threshold.den < drift_threshold.num * weights.den
             THEN Append(rest, n - 1) ELSE rest

\* the alert with the first weight recorded as the minimum
DriftAlert_first_weight(timestep, weights, drift_threshold) ==
    [timestep        |-> timestep,
     outlier_indices |-> outliers_upto(weights, drift_threshold, Len(weights.num)),
     min_weight      |-> Rat(<<weights.num[1]>>, weights.den),
     weights         |-> weights]

DriftAlert(timestep, weights, drift_threshold) ==
    [timestep        |-> timestep,
     outlier_indices |-> outliers_upto(weights, drift_threshold, Len(weights.num)),
     min_weight      |-> Rat(<<np_sort(weights.num)[1]>>, weights.den),
     weights         |-> weights]

\* update that retains the batch only when it raised no alert
update_state_unless_drift(self, c, rows, center, tau, weights) ==
    IF detect_drift(weights, c.drift_threshold)
    THEN [self EXCEPT
            !.last_tau = <<tau>>,
            !.last_weights = <<weights>>,
            !.drift_alerts =
                Append(@, DriftAlert(self.timestep + 1, weights, c.drift_threshold))]
    ELSE [self EXCEPT
            !.last_tau = <<tau>>,
            !.last_weights = <<weights>>,
            !.center_prev = <<center>>,
            !.signals_prev = <<rows>>,
            !.timestep = @ + 1]

\* update that keeps the alert history newest first
update_state_newest_first(self, c, rows, center, tau, weights) ==
    [self EXCEPT
        !.last_tau = <<tau>>,
        !.last_weights = <<weights>>,
        !.center_prev = <<center>>,
        !.signals_prev = <<rows>>,
        !.timestep = @ + 1,
        !.drift_alerts =
            IF detect_drift(weights, c.drift_threshold)
            THEN <<DriftAlert(self.timestep + 1, weights, c.drift_threshold)>> \o @
            ELSE @]

\* update that stamps the alert with the counter as it was before the call
update_state_stale_timestep(self, c, rows, center, tau, weights) ==
    [self EXCEPT
        !.last_tau = <<tau>>,
        !.last_weights = <<weights>>,
        !.center_prev = <<center>>,
        !.signals_prev = <<rows>>,
        !.timestep = @ + 1,
        !.drift_alerts =
            IF detect_drift(weights, c.drift_threshold)
            THEN Append(@, DriftAlert(self.timestep, weights, c.drift_threshold))
            ELSE @]

\* update, steps 6 and 7: the retained state, the counter, the drift alert
update_state(self, c, rows, center, tau, weights) ==
    [self EXCEPT
        !.last_tau = <<tau>>,
        !.last_weights = <<weights>>,
        !.center_prev = <<center>>,
        !.signals_prev = <<rows>>,
        !.timestep = @ + 1,
        !.drift_alerts =
            IF detect_drift(weights, c.drift_threshold)
            THEN Append(@, DriftAlert(self.timestep + 1, weights, c.drift_threshold))
            ELSE @]

\* update, step 5: the fusion; scipy.fft.fft refuses a signal without samples,
\* when last_tau and last_weights are already set
update_fusion(self, c, rows, center, tau, weights) ==
    IF Len(rows[1]) = 0
    THEN Raised("ValueError",
                [self EXCEPT !.last_tau = <<tau>>, !.last_weights = <<weights>>])
    ELSE Returned(update_state(self, c, rows, center, tau, weights),
                  fft_fusion(rows, weights), weights)

\* update, steps 3 and 4: tau and the weights
update_weights(self, c, rows, center, distances) ==
    update_fusion(self, c, rows, center,
                  TauSq(c.alpha, distances,
                        center.den * center.den * c.lambda_jitter.den),
                  temporal_compute_weights(c.alpha, distances))

\* update, step 2: the distances
update_center(self, c, rows, center) ==
    update_weights(self, c, rows, center,
                   compute_temporal_distances(c.lambda_jitter, rows, center,
                                              self.signals_prev))

\* update that retains the new center before signals_prev[i] raises
update_center_first(self, c, signals) ==
    IF ndim(signals) # 2 THEN Raised("ValueError", self)
    ELSE IF n_signals(signals) < 2 THEN Raised("ValueError", self)
    ELSE IF /\ self.center_prev # <<>>
            /\ ~Broadcastable(Len(self.center_prev[1].num), n_samples(signals))
         THEN Raised("ValueError", self)
    ELSE IF /\ self.signals_prev # <<>>
            /\ ~Broadcastable(Len(self.signals_prev[1][1]), n_samples(signals))
         THEN Raised("ValueError", self)
    ELSE IF /\ self.signals_prev # <<>>
            /\ n_signals(signals) > Len(self.signals_prev[1])
         THEN Raised("IndexError",
                     [self EXCEPT !.center_prev =
                         <<temporal_center(c.beta, c.method, Rows(signals),
                                           self.center_prev)>>])
    ELSE update_center(self, c, Rows(signals),
                       temporal_center(c.beta, c.method, Rows(signals),
                                       self.center_prev))

\* TemporalAdaptiveKernel.update on the instance self; the exceptions are
\* those of the shape checks, of the blend's and the jitter's broadcasting,
\* and of signals_prev[i] for a source the previous batch did not have
update(self, c, signals) ==
    IF ndim(signals) # 2 THEN Raised("ValueError", self)
    ELSE IF n_signals(signals) < 2 THEN Raised("ValueError", self)
    ELSE IF /\ self.center_prev # <<>>
            /\ ~Broadcastable(Len(self.center_prev[1].num), n_samples(signals))
         THEN Raised("ValueError", self)
    ELSE IF /\ self.signals_prev # <<>>
            /\ ~Broadcastable(Len(self.signals_prev[1][1]), n_samples(signals))
         THEN Raised("ValueError", self)
    ELSE IF /\ self.signals_prev # <<>>
            /\ n_signals(signals) > Len(self.signals_prev[1])
         THEN Raised("IndexError", self)
    ELSE update_center(self, c, Rows(signals),
                       temporal_center(c.beta, c.method, Rows(signals),
                                       self.center_prev))

\* reset that forgets the retained batch and center but not the alerts
reset_keeps_alerts(self) ==
    [self EXCEPT
        !.center_prev = <<>>,
        !.signals_prev = <<>>,
        !.last_tau = <<>>,
        !.last_weights = <<>>,
        !.timestep = 0]

\* TemporalAdaptiveKernel.reset
reset(self) ==
    [center_prev |-> <<>>, signals_prev |-> <<>>, last_tau |-> <<>>,
     last_weights |-> <<>>, drift_alerts |-> <<>>, timestep |-> 0]

----------------------------------------------------------------------------
(* HybridKernel *)

\* recent_drifts.append(drift_detected), then pop(0) beyond the window
push_drift(drifts, drift_detected, window) ==
    LET appended == Append(drifts, drift_detected)
    IN  IF Len(appended) > window THEN Tail(appended) ELSE appended

\* sum(recent_drifts) / len(recent_drifts) > 0.3
drift_rate_high(drifts) ==
    10 * Cardinality({i \in 1..Len(drifts) : drifts[i]}) > 3 * Len(drifts)

\* HybridKernel.update, the end: what is surfaced
hybrid_surface(self, b, drifts, newmode, t) ==
    [status  |-> t.status,
     self    |-> [batch_kernel    |-> b.self,
                  temporal_kernel |-> t.self,
                  mode            |-> newmode,
                  recent_drifts   |-> drifts],
     K_w     |-> IF t.status # "ok" THEN <<>>
                 ELSE IF newmode = "streaming" THEN t.K_w ELSE b.K_w,
     weights |-> IF t.status # "ok" THEN <<>>
                 ELSE IF newmode = "streaming" THEN t.weights ELSE b.weights]

\* the mode switch that leaves the temporal kernel alone in batch mode
hybrid_switch_batch_only(self, c, signals, b, drifts) ==
    IF drift_rate_high(drifts)
    THEN hybrid_surface(self, b, drifts, "streaming",
                        update(self.temporal_kernel, c, signals))
    ELSE hybrid_surface(self, b, drifts, "batch",
                        [status |-> "ok", self |-> self.temporal_kernel,
                         K_w |-> <<>>, weights |-> <<>>])

\* HybridKernel.update, the mode switch: self.mode is assigned and the
\* temporal kernel updated in either branch
hybrid_switch(self, c, signals, b, drifts) ==
    hybrid_surface(self, b, drifts,
                   IF drift_rate_high(drifts) THEN "streaming" ELSE "batch",
                   update(self.temporal_kernel, c, signals))

\* HybridKernel.update after the batch fit: the drift window
hybrid_window(self, c, signals, b) ==
    IF b.status # "ok"
    THEN Raised(b.status, self)
    ELSE hybrid_switch(self, c, signals, b,
                       push_drift(self.recent_drifts,
                                  detect_drift(b.weights[1], [num |-> 1, den |-> 10]),
                                  c.drift_detection_window))

\* HybridKernel.update on self = [batch_kernel, temporal_kernel, mode, recent_drifts]
hybrid_update(self, c, signals) ==
    hybrid_window(self, c, signals, fit(self.batch_kernel, c.alpha, "median", signals))

\* reset that returns to batch mode without emptying the window
hybrid_reset_keeps_window(self) ==
    [batch_kernel    |-> self.batch_kernel,
     temporal_kernel |-> reset(self.temporal_kernel),
     mode            |-> "batch",
     recent_drifts   |-> self.recent_drifts]

\* HybridKernel.reset
hybrid_reset(self) ==
    [batch_kernel    |-> self.batch_kernel,
     temporal_kernel |-> reset(self.temporal_kernel),
     mode            |-> "batch",
     recent_drifts   |-> <<>>]

----------------------------------------------------------------------------
(* The batches the callers pass *)

Batch(rows) == [kind |-> "2d", data |-> rows]

\* every source is the base signal plus its own constant offset
Shifted(base, offs) ==
    Batch(Vec([i \in 1..Len(offs) |-> Vec([t \in 1..Len(base) |-> base[t] + offs[i]])]))

Tuples(n, S) == [1..n -> S]

Base2 == <<0, 1>>
Base4 == <<0, 1, 0, 0>>

\* inputs fit() rejects: a list of scalars, no source, one source, sources
\* without samples or with one sample, sources of unequal length
BadBatches ==
    { [kind |-> "1d", data |-> <<<<0, 1, MaxVal>>>>],
      Batch(<<>>),
      Batch(<<<<0, 1, MaxVal>>>>),
      Batch(<<<<>>, <<>>>>),
      Batch(<<<<0>>, <<MaxVal>>, <<0>>>>),
      Batch(<<<<0, 1>>, <<0, 1, MaxVal>>>>) }

FitBatches ==
    { Shifted(Base2, o) : o \in Tuples(2, {0, 1, MaxVal}) \cup Tuples(3, {0, 1, MaxVal}) }
    \cup { Shifted(Base2, o) : o \in Tuples(4, {0, MaxVal}) \cup Tuples(5, {0, MaxVal}) }
    \cup { Shifted(Base4, o) : o \in Tuples(3, {0, MaxVal}) }
    \cup { Batch(r) : r \in Tuples(2, Tuples(2, {0, MaxVal})) }

FitInputs == FitBatches \cup BadBatches

\* a stream: agreeing sources, one or two displaced sources, a batch of two
\* sources, batches with another number of samples or of sources, and inputs
\* that are no batch
StreamInputs ==
    { Shifted(Base2, <<0, 0, 0>>),
      Shifted(Base2, <<0, 1, 0>>),
      Shifted(Base2, <<0, 1, MaxVal>>),
      Shifted(Base2, <<MaxVal, 0, 0>>),
      Shifted(Base2, <<0, MaxVal>>),
      Shifted(Base2, <<0, 0, 0, 0, MaxVal>>),
      Shifted(Base4, <<0, 1, MaxVal>>),
      Shifted(<<1>>, <<0, 1, MaxVal>>),
      Batch(<<<<>>, <<>>>>),
      Batch(<<<<0, 1, MaxVal>>>>),
      [kind |-> "1d", data |-> <<<<0, 1, MaxVal>>>>] }

----------------------------------------------------------------------------
(* Construction *)

\* the defaults of the constructors; beta is taken in (0, 1)
Alphas == { [num |-> 3, den |-> 2] }
Betas == { [num |-> 1, den |-> 2] }
Lambdas == { [num |-> 1, den |-> 2] }
Thresholds == { [num |-> 1, den |-> 10] }
Methods == { "median", "trimmed_mean" }
Windows == { 2 }

\* drift_detection_window as the constructor defaults it
DefaultWindow == 5

\* HybridKernel.__init__ leaves method and drift_threshold at their defaults,
\* and so does the kernel of the drift scenario
Configs(e) ==
    [alpha : Alphas, beta : Betas, lambda_jitter : Lambdas,
     method : IF e \in {"hybrid", "scenario", "drift"} THEN {"median"} ELSE Methods,
     drift_threshold : Thresholds,
     drift_detection_window : IF e = "scenario" THEN {DefaultWindow} ELSE Windows]

NoCall == [op |-> "none", status |-> "none", K_w |-> <<>>, weights |-> <<>>,
           mode |-> "none"]

NoArg == [kind |-> "none", data |-> <<>>]

\* AdaptiveSpectralKernel.__init__
NewBatchKernel == [last_tau |-> <<>>, last_weights |-> <<>>]

\* TemporalAdaptiveKernel.__init__
NewTemporalKernel ==
    [center_prev |-> <<>>, signals_prev |-> <<>>, last_tau |-> <<>>,
     last_weights |-> <<>>, drift_alerts |-> <<>>, timestep |-> 0]

\* what the caller keeps: the number of calls made, of results obtained since
\* construction (seen) and since the last reset (k), the drift outcomes, and
\* the list it last got from get_drift_history (held), and, when it keeps one,
\* the log of the batches it passed (<<>>: none kept)
NewHist ==
    [calls |-> 0, k |-> 0, seen |-> 0, drifts |-> <<>>, held |-> <<>>, log |-> <<>>]

Logged(log, signals) ==
    IF log = <<>> THEN log ELSE <<Append(log[1], signals)>>

NewRef == [kernel |-> NewTemporalKernel, K_w |-> <<>>, weights |-> <<>>]

InitWith(e, h) ==
    /\ engine = e
    /\ cfg \in Configs(e)
    /\ bk = NewBatchKernel
    /\ tk = NewTemporalKernel
    /\ mode = "batch"
    /\ recent_drifts = <<>>
    /\ ref = NewRef
    /\ arg = NoArg
    /\ ret = NoCall
    /\ hist = h

InitEngine(e) == InitWith(e, NewHist)

Init == \E e \in {"batch", "temporal", "hybrid"} : InitEngine(e)

----------------------------------------------------------------------------
(* Calls *)

Outcome(op, r, m) ==
    [op |-> op, status |-> r.status, K_w |-> r.K_w, weights |-> r.weights, mode |-> m]

\* result, weights = kernel.fit(signals)
FitDone(signals, r) ==
    /\ bk' = r.self
    /\ ret' = Outcome("fit", r, "none")
    /\ arg' = signals
    /\ hist' = [hist EXCEPT !.calls = @ + 1, !.log = Logged(@, signals)]
    /\ UNCHANGED <<engine, cfg, tk, mode, recent_drifts, ref>>

Fit(signals) ==
    /\ engine = "batch"
    /\ hist.calls < MaxFits
    /\ FitDone(signals, fit(bk, cfg.alpha, cfg.method, signals))

\* result, weights = kernel.update(signals)
UpdateDone(signals, r) ==
    /\ tk' = r.self
    /\ ret' = Outcome("update", r, "none")
    /\ arg' = signals
    /\ hist' = [hist EXCEPT !.calls = @ + 1,
                            !.k = IF r.status = "ok" THEN @ + 1 ELSE @,
                            !.seen = IF r.status = "ok" THEN @ + 1 ELSE @,
                            !.log = Logged(@, signals)]
    /\ UNCHANGED <<engine, cfg, bk, mode, recent_drifts, ref>>

Update(signals) ==
    /\ engine = "temporal"
    /\ hist.calls < MaxCalls
    /\ UpdateDone(signals, update(tk, cfg, signals))

\* self.drift_alerts = [] drops the kernel's list, not the dicts that were in
\* it: those the caller holds are from then on the caller's alone
Detached(held) ==
    Vec([i \in 1..Len(held) |-> [ref |-> 0, alert |-> held[i].alert]])

\* kernel.reset()
Reset ==
    /\ engine = "temporal"
    /\ hist.calls < MaxCalls
    /\ tk' = reset(tk)
    /\ ret' = [NoCall EXCEPT !.op = "reset", !.status = "ok"]
    /\ arg' = NoArg
    /\ hist' = [hist EXCEPT !.calls = @ + 1, !.k = 0, !.held = Detached(@)]
    /\ UNCHANGED <<engine, cfg, bk, mode, recent_drifts, ref>>

HybridSelf ==
    [batch_kernel |-> bk, temporal_kernel |-> tk, mode |-> mode,
     recent_drifts |-> recent_drifts]

\* result, weights, mode = kernel.update(signals) on a HybridKernel.  The
\* caller logs the drift outcome of a call that succeeded, as the batch
\* weights of that call give it
HybridDone(signals, r) ==
    /\ bk' = r.self.batch_kernel
    /\ tk' = r.self.temporal_kernel
    /\ mode' = r.self.mode
    /\ recent_drifts' = r.self.recent_drifts
    /\ ret' = Outcome("update", r, IF r.status = "ok" THEN r.self.mode ELSE "none")
    /\ arg' = signals
    /\ hist' = IF r.status = "ok"
               THEN [calls  |-> hist.calls + 1,
                     k      |-> hist.k + 1,
                     seen   |-> hist.seen + 1,
                     held   |-> hist.held,
                     log    |-> Logged(hist.log, signals),
                     drifts |-> Append(hist.drifts,
                                   detect_drift(r.self.batch_kernel.last_weights[1],
                                                [num |-> 1, den |-> 10]))]
               ELSE [hist EXCEPT !.calls = @ + 1, !.log = Logged(@, signals)]
    /\ UNCHANGED <<engine, cfg>>

\* the stand-alone temporal kernel is fed the batches of the calls that succeeded
RefDone(ok, r) ==
    ref' = IF ok THEN [kernel |-> r.self, K_w |-> r.K_w, weights |-> r.weights]
           ELSE ref

HybridUpdate(signals) ==
    /\ engine = "hybrid"
    /\ hist.calls < MaxCalls
    /\ HybridDone(signals, hybrid_update(HybridSelf, cfg, signals))
    /\ RefDone(ret'.status = "ok", update(ref.kernel, cfg, signals))

\* kernel.reset() on a HybridKernel; the stand-alone kernel is reset with it
HybridReset ==
    /\ engine = "hybrid"
    /\ hist.calls < MaxCalls
    /\ bk' = hybrid_reset(HybridSelf).batch_kernel
    /\ tk' = hybrid_reset(HybridSelf).temporal_kernel
    /\ mode' = hybrid_reset(HybridSelf).mode
    /\ recent_drifts' = hybrid_reset(HybridSelf).recent_drifts
    /\ ref' = NewRef
    /\ ret' = [NoCall EXCEPT !.op = "reset", !.status = "ok"]
    /\ arg' = NoArg
    /\ hist' = [calls |-> hist.calls + 1, k |-> 0, seen |-> hist.seen,
                held |-> hist.held, log |-> hist.log, drifts |-> <<>>]
    /\ UNCHANGED <<engine, cfg>>

CallFit == \E signals \in FitInputs : Fit(signals)
CallUpdate == \E signals \in StreamInputs : Update(signals)
CallHybridUpdate == \E signals \in StreamInputs : HybridUpdate(signals)

\* the mode-switching scenario: CleanRuns updates with sources that all
\* agree, then ContaminatedRuns updates in which at least 30% of the sources
\* (and fewer than half) are displaced by the same offset
CleanRuns == 5
ContaminatedRuns == 10
ScenarioSizes == {3, 5, 7, 11}

CleanBatch(n) == Shifted(Base2, [i \in 1..n |-> 0])

Corrupted(n) == (3 * n + 9) \div 10

ContaminatedBatch(n, off) ==
    Shifted(Base2, [i \in 1..n |-> IF i > n - Corrupted(n) THEN off ELSE 0])

ScenarioStep(signals) ==
    /\ HybridDone(signals, hybrid_update(HybridSelf, cfg, signals))
    /\ RefDone(ret'.status = "ok", update(ref.kernel, cfg, signals))

FeedClean ==
    /\ engine = "scenario"
    /\ hist.calls < CleanRuns
    /\ \E n \in ScenarioSizes :
          /\ hist.calls = 0 \/ n = Len(arg.data)
          /\ ScenarioStep(CleanBatch(n))

FeedContaminated ==
    /\ engine = "scenario"
    /\ hist.calls >= CleanRuns
    /\ hist.calls < CleanRuns + ContaminatedRuns
    /\ \E off \in {1, 2, MaxVal} :
          ScenarioStep(ContaminatedBatch(Len(arg.data), off))

\* the batches of the alert-history runs: one without drift, two with
HistoryInputs ==
    {Shifted(Base2, <<0, 0, 0>>), Shifted(Base2, <<0, 1, MaxVal>>),
     Shifted(Base2, <<MaxVal, 0, 1>>)}

CallUpdateFew == \E signals \in HistoryInputs : Update(signals)

\* the caller's side of a call that is no fit, update or reset
CallerDone(op, held) ==
    /\ ret' = [NoCall EXCEPT !.op = op, !.status = "ok"]
    /\ arg' = NoArg
    /\ hist' = [hist EXCEPT !.calls = @ + 1, !.held = held]
    /\ UNCHANGED <<engine, cfg, bk, mode, recent_drifts, ref>>

\* history = kernel.get_drift_history(): self.drift_alerts.copy() is a new
\* list of the same dicts; ref is the place of the dict in the kernel's list
GetDriftHistory ==
    /\ engine = "temporal"
    /\ hist.calls < MaxCalls
    /\ tk' = tk
    /\ CallerDone("get_drift_history",
                  Vec([i \in 1..Len(tk.drift_alerts) |->
                          [ref |-> i, alert |-> tk.drift_alerts[i]]]))

\* an alert of the caller's own making
CallerAlert ==
    [timestep |-> 0, outlier_indices |-> <<>>,
     min_weight |-> [num |-> <<0>>, den |-> 1],
     weights |-> [num |-> <<>>, den |-> 1]]

\* history.append(alert)
CallerAppends ==
    /\ engine = "temporal"
    /\ hist.calls < MaxCalls
    /\ tk' = tk
    /\ CallerDone("caller", Append(hist.held, [ref |-> 0, alert |-> CallerAlert]))

\* history.pop(0)
CallerRemoves ==
    /\ engine = "temporal"
    /\ hist.calls < MaxCalls
    /\ hist.held # <<>>
    /\ tk' = tk
    /\ CallerDone("caller", Tail(hist.held))

\* history[i]['min_weight'] = 1.0: the dict is the one the kernel's list holds
\* when it came from there
CallerEdits ==
    /\ engine = "temporal"
    /\ hist.calls < MaxCalls
    /\ \E i \in 1..Len(hist.held) :
          /\ tk' = IF hist.held[i].ref = 0 THEN tk
                   ELSE [tk EXCEPT !.drift_alerts[hist.held[i].ref].min_weight =
                                        [num |-> <<1>>, den |-> 1]]
          /\ CallerDone("caller",
                        [hist.held EXCEPT ![i].alert.min_weight =
                                              [num |-> <<1>>, den |-> 1]])

\* the drift scenario of generate_drift_attack: at timestep t the last source
\* is displaced by drift_rate * t, the others keep their places, which are
\* either all the same or scattered by a constant noise
DriftSteps == 5
DriftSizes == {3, 4, 5, 6}
DriftRates == {1, 2, 3, MaxVal}
Noise == <<0, 1, 1, 2, 1>>

DriftBatch(n, noisy, drift) ==
    Shifted(Base2, [i \in 1..n |-> IF i = n THEN drift
                                   ELSE IF noisy THEN Noise[i] ELSE 0])

FeedDrift ==
    /\ engine = "drift"
    /\ hist.calls < DriftSteps
    /\ \E n \in DriftSizes, noisy \in BOOLEAN, drift_rate \in DriftRates :
          /\ hist.calls > 0 =>
                /\ n = Len(arg.data)
                /\ noisy = (arg.data[1] # arg.data[2])
          /\ hist.calls > 1 =>
                drift_rate * (hist.calls - 1) = arg.data[n][1] - Base2[1]
          /\ UpdateDone(DriftBatch(n, noisy, drift_rate * hist.calls),
                        update(tk, cfg, DriftBatch(n, noisy, drift_rate * hist.calls)))

\* the batches of the runs that are logged: without drift, with drift, with
\* fewer sources, and one that is refused
ReplayInputs ==
    {Shifted(Base2, <<0, 0, 0>>), Shifted(Base2, <<0, 1, MaxVal>>),
     Shifted(Base2, <<MaxVal, 0, 1>>), Shifted(Base2, <<0, MaxVal>>),
     Batch(<<<<0, 1, MaxVal>>>>)}

LoggedFit == \E signals \in ReplayInputs : Fit(signals)
LoggedUpdate == \E signals \in ReplayInputs : Update(signals)
LoggedHybridUpdate == \E signals \in ReplayInputs : HybridUpdate(signals)

\* the arguments a constructor may be called with, in and out of the
\* documented domain
Requests ==
    [alpha : {[num |-> -3, den |-> 2], [num |-> 0, den |-> 1], [num |-> 3, den |-> 2]},
     beta : {[num |-> 0, den |-> 1], [num |-> 1, den |-> 2], [num |-> 1, den |-> 1]},
     lambda_jitter : {[num |-> -1, den |-> 2], [num |-> 0, den |-> 1],
                      [num |-> 1, den |-> 2]},
     method : Methods \cup {"unknown"},
     drift_threshold : {[num |-> 0, den |-> 1], [num |-> 1, den |-> 10],
                        [num |-> 1, den |-> 1]},
     drift_detection_window : Windows]

\* AdaptiveSpectralKernel.__init__: the checks
batch_init(alpha, method) ==
    IF alpha.num <= 0 THEN "ValueError"
    ELSE IF method \notin {"median", "trimmed_mean"} THEN "ValueError"
    ELSE "ok"

\* TemporalAdaptiveKernel.__init__: the checks; alpha and method are stored
\* as given
temporal_init(alpha, beta, lambda_jitter, method, drift_threshold) ==
    IF ~(0 < beta.num /\ beta.num < beta.den) THEN "ValueError"
    ELSE IF lambda_jitter.num < 0 THEN "ValueError"
    ELSE IF ~(0 < drift_threshold.num /\ drift_threshold.num < drift_threshold.den)
         THEN "ValueError"
    ELSE "ok"

\* HybridKernel.__init__: the batch kernel, then the temporal kernel, both
\* with the default method, the temporal kernel with the default threshold
hybrid_init(alpha, beta, lambda_jitter) ==
    IF batch_init(alpha, "median") # "ok" THEN batch_init(alpha, "median")
    ELSE temporal_init(alpha, beta, lambda_jitter, "median", [num |-> 1, den |-> 10])

\* a constructor call: an engine of the kind, or an exception and no engine
Constructed(kind, op, status) ==
    /\ engine = "new"
    /\ engine' = IF status = "ok" THEN kind ELSE "none"
    /\ cfg' = IF status = "ok" /\ kind = "hybrid"
              THEN [cfg EXCEPT !.method = "median",
                               !.drift_threshold = [num |-> 1, den |-> 10]]
              ELSE cfg
    /\ ret' = [NoCall EXCEPT !.op = op, !.status = status]
    /\ UNCHANGED <<bk, tk, mode, recent_drifts, ref, arg, hist>>

NewAdaptiveSpectralKernel ==
    Constructed("batch", "AdaptiveSpectralKernel", batch_init(cfg.alpha, cfg.method))

NewTemporalAdaptiveKernel ==
    Constructed("temporal", "TemporalAdaptiveKernel",
                temporal_init(cfg.alpha, cfg.beta, cfg.lambda_jitter, cfg.method,
                              cfg.drift_threshold))

NewHybridKernel ==
    Constructed("hybrid", "HybridKernel",
                hybrid_init(cfg.alpha, cfg.beta, cfg.lambda_jitter))

InitRequest ==
    /\ engine = "new"
    /\ cfg \in Requests
    /\ bk = NewBatchKernel
    /\ tk = NewTemporalKernel
    /\ mode = "batch"
    /\ recent_drifts = <<>>
    /\ ref = NewRef
    /\ arg = NoArg
    /\ ret = NoCall
    /\ hist = NewHist

\* a HybridKernel as its constructor leaves it
FreshArbiter ==
    [batch_kernel |-> NewBatchKernel, temporal_kernel |-> NewTemporalKernel,
     mode |-> "batch", recent_drifts |-> <<>>]

\* number of calls made on a pair of engines
PairCalls == 3

\* the batches of the two streams: without drift, with drift, and one of
\* fewer sources
PairInputs ==
    {Shifted(Base2, <<0, 0, 0>>), Shifted(Base2, <<0, 1, MaxVal>>),
     Shifted(Base2, <<MaxVal, 0, 1>>), Shifted(Base2, <<0, MaxVal>>)}

\* update that retains the array it was passed: what the caller writes into
\* that array is written into signals_prev
caller_writes_retained(self, rows) ==
    [self EXCEPT !.signals_prev = IF @ = <<>> THEN @ ELSE <<rows>>]

\* the caller writes rows into the array it passed to the last update:
\* np.array(signals) and signals.copy() made the engine arrays of its own,
\* which the write does not reach
caller_writes(self, rows) == self

\* two engines of one kind and configuration, the first in bk, tk, mode and
\* recent_drifts, the second in ref.kernel
InitPair ==
    \E e \in {"temporal_pair", "hybrid_pair"} :
        /\ engine = e
        /\ cfg \in Configs(IF e = "hybrid_pair" THEN "hybrid" ELSE "temporal")
        /\ bk = NewBatchKernel
        /\ tk = NewTemporalKernel
        /\ mode = "batch"
        /\ recent_drifts = <<>>
        /\ ref = IF e = "hybrid_pair" THEN [NewRef EXCEPT !.kernel = FreshArbiter]
                 ELSE NewRef
        /\ arg = NoArg
        /\ ret = NoCall
        /\ hist = [NewHist EXCEPT !.log = <<<<>>>>]

Instance(i) ==
    IF i = 2 THEN ref.kernel
    ELSE IF engine = "hybrid_pair" THEN HybridSelf ELSE tk

\* the batch the engine retains from its last update
RetainedBatch(kind, self) ==
    IF kind = "hybrid_pair" THEN self.temporal_kernel.signals_prev
    ELSE self.signals_prev

\* the engine after the caller has filled the array of the last call anew
Rewritten(kind, self, rows) ==
    IF kind = "hybrid_pair"
    THEN [self EXCEPT !.temporal_kernel = caller_writes(@, rows)]
    ELSE caller_writes(self, rows)

\* update or reset of an engine of the kind
engine_call(kind, self, c, op, signals) ==
    IF op = "reset"
    THEN [status |-> "ok", K_w |-> <<>>, weights |-> <<>>,
          self |-> IF kind = "hybrid_pair" THEN hybrid_reset(self) ELSE reset(self)]
    ELSE IF kind = "hybrid_pair" THEN hybrid_update(self, c, signals)
    ELSE update(self, c, signals)

\* the call as the caller logs it: which engine, which call, which batch
Entry(i, op, signals) == [to |-> i, op |-> op, signals |-> signals]

\* a call on engine i of the pair leaves the other engine alone
PairDone(i, op, signals, r) ==
    /\ IF i = 2
       THEN /\ ref' = [kernel |-> r.self, K_w |-> r.K_w, weights |-> r.weights]
            /\ UNCHANGED <<bk, tk, mode, recent_drifts>>
       ELSE /\ ref' = ref
            /\ IF engine = "hybrid_pair"
               THEN /\ bk' = r.self.batch_kernel
                    /\ tk' = r.self.temporal_kernel
                    /\ mode' = r.self.mode
                    /\ recent_drifts' = r.self.recent_drifts
               ELSE /\ tk' = r.self
                    /\ UNCHANGED <<bk, mode, recent_drifts>>
    /\ ret' = Outcome(op, r,
                      IF engine = "hybrid_pair" /\ op = "update" /\ r.status = "ok"
                      THEN r.self.mode ELSE "none")
    /\ arg' = signals
    /\ hist' = [hist EXCEPT !.calls = @ + 1,
                            !.log = <<Append(@[1], Entry(i, op, signals))>>]
    /\ UNCHANGED <<engine, cfg>>

\* kernel_i.update(signals), the batch in a new array or, when it has the
\* shape of the last one, in the array of the last call filled anew
PairUpdate ==
    /\ engine \in {"temporal_pair", "hybrid_pair"}
    /\ hist.calls < PairCalls
    /\ \E i \in {1, 2}, signals \in PairInputs, reuse \in BOOLEAN :
          /\ reuse => /\ RetainedBatch(engine, Instance(i)) # <<>>
                      /\ Len(RetainedBatch(engine, Instance(i))[1]) = Len(signals.data)
          /\ PairDone(i, "update", signals,
                      engine_call(engine,
                                  IF reuse
                                  THEN Rewritten(engine, Instance(i), signals.data)
                                  ELSE Instance(i),
                                  cfg, "update", signals))

\* kernel_i.reset()
PairReset ==
    /\ engine \in {"temporal_pair", "hybrid_pair"}
    /\ hist.calls < PairCalls
    /\ \E i \in {1, 2} :
          PairDone(i, "reset", NoArg, engine_call(engine, Instance(i), cfg, "reset", NoArg))

\* a window wider than the runs need to fill it once
WideWindow == 3

\* HybridKernel(drift_detection_window=WideWindow)
InitWindow ==
    /\ engine = "hybrid"
    /\ cfg \in [alpha : Alphas, beta : Betas, lambda_jitter : Lambdas,
                method : {"median"}, drift_threshold : Thresholds,
                drift_detection_window : {WideWindow}]
    /\ bk = NewBatchKernel
    /\ tk = NewTemporalKernel
    /\ mode = "batch"
    /\ recent_drifts = <<>>
    /\ ref = NewRef
    /\ arg = NoArg
    /\ ret = NoCall
    /\ hist = NewHist

\* streams of batches whose sources are all the same signal, the signal at
\* its own level in every batch
AgreeSizes == {2, 3, 10, 11}

FeedIdentical ==
    /\ engine = "agree"
    /\ hist.calls < MaxCalls
    /\ \E n \in AgreeSizes, level \in {0, 1, MaxVal} :
          /\ hist.calls > 0 => n = Len(arg.data)
          /\ UpdateDone(Shifted(Base2, [i \in 1..n |-> level]),
                        update(tk, cfg, Shifted(Base2, [i \in 1..n |-> level])))

Next == CallFit \/ CallUpdate \/ Reset \/ CallHybridUpdate \/ HybridReset

\* any of the three engines
Spec == Init /\ [][Next]_vars

\* an AdaptiveSpectralKernel
SpecFit == InitEngine("batch") /\ [][CallFit]_vars

\* a TemporalAdaptiveKernel
SpecTemporal == InitEngine("temporal") /\ [][CallUpdate \/ Reset]_vars

\* a HybridKernel
SpecHybrid == InitEngine("hybrid") /\ [][CallHybridUpdate \/ HybridReset]_vars

\* a TemporalAdaptiveKernel and a caller that reads its alert history
SpecHistory ==
    InitEngine("temporal")
        /\ [][CallUpdateFew \/ Reset \/ GetDriftHistory \/ CallerAppends
                \/ CallerRemoves \/ CallerEdits]_vars

\* a TemporalAdaptiveKernel fed the drift scenario to its end
SpecDrift == InitEngine("drift") /\ [][FeedDrift]_vars

\* an engine of any of the three kinds whose caller logs the batches
SpecReplay ==
    (\E e \in {"batch", "temporal", "hybrid"} :
        InitWith(e, [NewHist EXCEPT !.log = <<<<>>>>]))
        /\ [][LoggedFit \/ LoggedUpdate \/ LoggedHybridUpdate]_vars

\* the constructors, called with arguments in and out of the domain
SpecConstruct ==
    InitRequest
        /\ [][NewAdaptiveSpectralKernel \/ NewTemporalAdaptiveKernel
                \/ NewHybridKernel]_vars

\* two engines of one kind, each serving a stream of its own, their calls
\* interleaved in any order
SpecPair == InitPair /\ [][PairUpdate \/ PairReset]_vars

\* a HybridKernel with the wider window
SpecWindow == InitWindow /\ [][CallHybridUpdate \/ HybridReset]_vars

\* a TemporalAdaptiveKernel fed batches of sources that all agree
SpecAgree == InitEngine("agree") /\ [][FeedIdentical]_vars

\* a HybridKernel with the default window, fed the mode-switching scenario
SpecArbiter == InitEngine("scenario") /\ [][FeedClean \/ FeedContaminated]_vars

----------------------------------------------------------------------------
(* What the callers may rely on *)

\* the batch is a rectangle of at least 2 sources with at least 2 samples each
ValidBatch(b) ==
    /\ b.kind = "2d"
    /\ Len(b.data) >= 2
    /\ \A i \in 1..Len(b.data) :
          Len(b.data[i]) >= 2 /\ Len(b.data[i]) = Len(b.data[1])

Succeeded == ret.status = "ok" /\ ret.op \in {"fit", "update"}

UniformWeights(n) == [num |-> [i \in 1..n |-> 1], den |-> n]

\* C1: whenever fit, TemporalAdaptiveKernel.update or HybridKernel.update
\* returns for a valid batch of N sources, the weight vector has N entries,
\* none of them negative, and they sum to 1
WeightsNormalised ==
    (Succeeded /\ ValidBatch(arg)) =>
        /\ Len(ret.weights[1].num) = Len(arg.data)
        /\ \A i \in 1..Len(ret.weights[1].num) : ret.weights[1].num[i] >= 0
        /\ ret.weights[1].den > 0
        /\ SumSeq(ret.weights[1].num) = ret.weights[1].den

\* a hybrid kernel surfaced temporal weights that are not uniform
WeightsNormalisedWitness ==
    /\ Succeeded
    /\ ValidBatch(arg)
    /\ ret.mode = "streaming"
    /\ ret.weights[1] # UniformWeights(Len(arg.data))

\* four sources equal to one another and a fifth, at index j, that is the
\* same signal displaced by a constant off
FourAndOne(b, j, off) ==
    /\ ValidBatch(b)
    /\ Len(b.data) = 5
    /\ \A i \in 1..5 : \A t \in 1..Len(b.data[1]) :
          b.data[i][t] = b.data[IF j = 1 THEN 2 ELSE 1][t] + (IF i = j THEN off ELSE 0)

\* C2: given four identical sources and one displaced by a large constant,
\* fit (alpha 1.5, median) gives the displaced source a weight of at most
\* 0.01 and each of the others about 0.2475 (within 0.01), so more than it
OutlierSuppressed ==
    \A j \in 1..5 :
        (/\ engine = "batch"
         /\ cfg.method = "median"
         /\ Succeeded
         /\ FourAndOne(arg, j, MaxVal)) =>
            /\ 100 * ret.weights[1].num[j] <= ret.weights[1].den
            /\ \A i \in (1..5) \ {j} :
                  /\ 10000 * ret.weights[1].num[i] >= 2375 * ret.weights[1].den
                  /\ 10000 * ret.weights[1].num[i] <= 2575 * ret.weights[1].den
                  /\ ret.weights[1].num[i] > ret.weights[1].num[j]

AllIdentical(b) ==
    ValidBatch(b) /\ \A i \in 1..Len(b.data) : b.data[i] = b.data[1]

\* C3: when all N sources of a batch are identical, fit returns the weight
\* 1/N for every source and a fused series equal to the common source
IdenticalSourcesFallback ==
    (engine = "batch" /\ ret.op = "fit" /\ AllIdentical(arg)) =>
        /\ ret.status = "ok"
        /\ ret.weights[1] = UniformWeights(Len(arg.data))
        /\ ret.K_w[1] = [num |-> arg.data[1], den |-> 1]

\* three identical sources of four samples went through fit
IdenticalSourcesWitness ==
    /\ engine = "batch"
    /\ ret.op = "fit"
    /\ AllIdentical(arg)
    /\ Len(arg.data) = 3
    /\ Len(arg.data[1]) = 4

\* C4: a fit call on a batch that is no rectangle of at least 2 sources with
\* at least 2 samples each raises ValueError, returns nothing, and leaves
\* last_tau and last_weights as they were before the call
FitRejectsInvalid ==
    [][(ret'.op = "fit" /\ ~ValidBatch(arg')) =>
            /\ ret'.status = "ValueError"
            /\ ret'.K_w = <<>>
            /\ ret'.weights = <<>>
            /\ bk' = bk]_vars

\* a fit call was rejected on a kernel that had fitted a batch before
FitRejectsInvalidWitness ==
    /\ ret.op = "fit"
    /\ ret.status = "ValueError"
    /\ ~ValidBatch(arg)
    /\ bk.last_tau # <<>>
    /\ bk.last_weights # <<>>

\* a rectangle of at least 2 sources with fewer than 2 samples each
FewSamples(b) ==
    /\ b.kind = "2d"
    /\ Len(b.data) >= 2
    /\ \A i \in 1..Len(b.data) :
          Len(b.data[i]) < 2 /\ Len(b.data[i]) = Len(b.data[1])

\* what a TemporalAdaptiveKernel carries from one update to the next
Retained(k) == <<k.center_prev, k.signals_prev, k.timestep, k.drift_alerts>>

\* C5: TemporalAdaptiveKernel.update on a batch with fewer than 2 samples
\* per source raises ValueError, returns nothing, and leaves timestep,
\* center_prev, signals_prev and drift_alerts unchanged
UpdateRejectsFewSamples ==
    [][(engine = "temporal" /\ ret'.op = "update" /\ FewSamples(arg')) =>
            /\ ret'.status = "ValueError"
            /\ ret'.K_w = <<>>
            /\ ret'.weights = <<>>
            /\ Retained(tk') = Retained(tk)]_vars

\* what the caller sees of an update: the outcome and the retained state
Observed(r) == <<r.status, r.K_w, r.weights, Retained(r.self)>>

\* C6: a TemporalAdaptiveKernel.update call that raises leaves center_prev,
\* signals_prev, timestep and drift_alerts as they were, and every update
\* that follows gives what it would have given without the failed call
FailedUpdateKeepsState ==
    [][(engine = "temporal" /\ ret'.op = "update" /\ ret'.status # "ok") =>
            /\ Retained(tk') = Retained(tk)
            /\ \A signals \in StreamInputs :
                  Observed(update(tk', cfg, signals))
                      = Observed(update(tk, cfg, signals))]_vars

\* an update failed on a well-formed batch because of what an earlier
\* update retained, after an alert had been recorded
FailedUpdateWitness ==
    /\ engine = "temporal"
    /\ ret.op = "update"
    /\ ret.status \in {"ValueError", "IndexError"}
    /\ ValidBatch(arg)
    /\ tk.timestep >= 1
    /\ tk.drift_alerts # <<>>

\* C7: a HybridKernel.update call that raises leaves mode, recent_drifts and
\* the state of the inner temporal kernel as they were before the call
FailedHybridUpdateKeepsState ==
    [][(engine = "hybrid" /\ ret'.op = "update" /\ ret'.status # "ok") =>
            /\ mode' = mode
            /\ recent_drifts' = recent_drifts
            /\ Retained(tk') = Retained(tk)]_vars

\* C8: with drift_detection_window = 5 and any number of sources, the mode
\* after five clean batches is 'batch', and after ten further heavily
\* contaminated batches it is 'streaming'
ModeSwitching ==
    engine = "scenario" =>
        /\ hist.calls = CleanRuns => mode = "batch"
        /\ hist.calls = CleanRuns + ContaminatedRuns => mode = "streaming"

\* a batch weight strictly below 0.1
BelowTenth(w) == \E i \in 1..Len(w.num) : 10 * w.num[i] < w.den

\* of the last n entries of a drift log, how many are drifts
DriftsAmongLast(log, n) ==
    Cardinality({i \in (Len(log) - n + 1)..Len(log) : log[i]})

MinOf(a, b) == IF a < b THEN a ELSE b

\* C9: after the k-th successful HybridKernel.update since construction or
\* reset, the mode is 'streaming' exactly when more than 0.3 of the last
\* min(k, window) successful calls had a batch weight below 0.1; the pair
\* returned is the temporal kernel's in 'streaming' and the batch kernel's
\* in 'batch'
ModeFollowsDriftRate ==
    (engine = "hybrid" /\ Succeeded) =>
        LET n == MinOf(hist.k, cfg.drift_detection_window)
        IN  /\ ret.mode = mode
            /\ (mode = "streaming") <=> (10 * DriftsAmongLast(hist.drifts, n) > 3 * n)
            /\ mode \in {"batch", "streaming"}
            /\ mode = "streaming" => ret.weights = tk.last_weights
            /\ mode = "batch" => ret.weights = bk.last_weights

\* C10: after k successful HybridKernel.update calls since construction or
\* reset the inner temporal kernel has timestep k and is in the state of a
\* stand-alone TemporalAdaptiveKernel fed the same batches, and a streaming
\* result is the one that stand-alone kernel returned for the batch
TemporalKeptInStep ==
    engine = "hybrid" =>
        /\ tk.timestep = hist.k
        /\ tk = ref.kernel
        /\ (Succeeded /\ ret.mode = "streaming") =>
              /\ ret.K_w = ref.K_w
              /\ ret.weights = ref.weights

\* a streaming result was surfaced after an update that had surfaced the
\* batch kernel's result
TemporalKeptInStepWitness ==
    /\ engine = "hybrid"
    /\ Succeeded
    /\ ret.mode = "streaming"
    /\ hist.k >= 2
    /\ ~hist.drifts[1]
    /\ ret.weights # bk.last_weights

\* the sources whose weight is strictly below the threshold, counted from 1
BelowThreshold(w, th) ==
    {i \in 1..Len(w.num) : w.num[i] * th.den < th.num * w.den}

\* the alert says of the weights w what the drift check found in them
AlertOf(a, w, th) ==
    /\ {a.outlier_indices[j] : j \in 1..Len(a.outlier_indices)}
          = {i - 1 : i \in BelowThreshold(w, th)}
    /\ Len(a.outlier_indices) = Cardinality(BelowThreshold(w, th))
    /\ a.outlier_indices # <<>>
    /\ \A i \in 1..Len(w.num) :
          a.min_weight.num[1] * w.den <= w.num[i] * a.min_weight.den
    /\ \E i \in 1..Len(w.num) :
          a.min_weight.num[1] * w.den = w.num[i] * a.min_weight.den
    /\ a.min_weight.num[1] * th.den < th.num * a.min_weight.den
    /\ a.weights = w

UpdateReturned == engine = "temporal" /\ ret.op = "update" /\ ret.status = "ok"

\* C11: a successful TemporalAdaptiveKernel.update appends exactly one alert
\* when some weight of the call is strictly below drift_threshold, and
\* otherwise leaves the history as it was; the alert lists exactly the
\* sources below the threshold, the minimum weight and the whole weight vector
DriftRecorded ==
    [][UpdateReturned' =>
          IF BelowThreshold(ret'.weights[1], cfg.drift_threshold) # {}
          THEN /\ Len(tk'.drift_alerts) = Len(tk.drift_alerts) + 1
               /\ SubSeq(tk'.drift_alerts, 1, Len(tk.drift_alerts)) = tk.drift_alerts
               /\ AlertOf(tk'.drift_alerts[Len(tk'.drift_alerts)],
                          ret'.weights[1], cfg.drift_threshold)
          ELSE tk'.drift_alerts = tk.drift_alerts]_vars

\* an update recorded an alert that names some of the sources but not all
DriftRecordedWitness ==
    /\ UpdateReturned
    /\ tk.drift_alerts # <<>>
    /\ tk.drift_alerts[Len(tk.drift_alerts)].timestep = tk.timestep
    /\ Len(tk.drift_alerts[Len(tk.drift_alerts)].outlier_indices) < Len(arg.data)

\* C12: a successful TemporalAdaptiveKernel.update adds 1 to timestep and
\* replaces center_prev by the center of this call and signals_prev by this
\* call's batch, with or without drift; timestep counts the successful
\* updates since construction or reset
StateAdvances ==
    [][UpdateReturned' =>
          /\ tk'.timestep = tk.timestep + 1
          /\ tk'.timestep = hist'.k
          /\ tk'.signals_prev = <<arg'.data>>
          /\ tk'.center_prev =
                <<temporal_center(cfg.beta, cfg.method, arg'.data, tk.center_prev)>>]_vars

\* the second of two updates detected drift and the state advanced all the same
StateAdvancesWitness ==
    /\ UpdateReturned
    /\ tk.timestep = 2
    /\ BelowThreshold(ret.weights[1], cfg.drift_threshold) # {}
    /\ tk.signals_prev = <<arg.data>>

\* C13: TemporalAdaptiveKernel.reset leaves the kernel with no retained
\* center or batch, timestep 0, no last_tau or last_weights and no alerts,
\* does not touch the configuration, and every update after it gives what a
\* freshly constructed kernel would give
ResetClears ==
    [][(engine = "temporal" /\ ret'.op = "reset") =>
          /\ tk' = NewTemporalKernel
          /\ cfg' = cfg
          /\ \A signals \in StreamInputs :
                update(tk', cfg', signals) = update(NewTemporalKernel, cfg, signals)]_vars

\* a kernel was reset after it had answered two updates
ResetClearsWitness ==
    /\ engine = "temporal"
    /\ ret.op = "reset"
    /\ hist.seen >= 2
    /\ tk.timestep = 0

IsPrefix(s, t) == Len(s) <= Len(t) /\ SubSeq(t, 1, Len(s)) = s

\* C15: every update leaves the alerts recorded before it in place, in their
\* order and unaltered, at the head of the history; the history gets shorter
\* only by reset
HistoryAppendOnly ==
    [][engine = "temporal" =>
          /\ ret'.op = "update" => IsPrefix(tk.drift_alerts, tk'.drift_alerts)
          /\ Len(tk'.drift_alerts) < Len(tk.drift_alerts) => ret'.op = "reset"]_vars

\* an update added a second alert behind the first
HistoryAppendOnlyWitness ==
    /\ UpdateReturned
    /\ Len(tk.drift_alerts) >= 2
    /\ tk.drift_alerts[Len(tk.drift_alerts)].timestep = tk.timestep
    /\ tk.drift_alerts[1].timestep < tk.timestep

\* what an update of the arbiter decides: the outcome, the mode, the window
\* and the state of the inner temporal kernel
Decision(r) ==
    <<r.status, r.K_w, r.weights, r.self.mode, r.self.recent_drifts,
      r.self.temporal_kernel>>

\* C14: after construction and after every HybridKernel.reset the mode is
\* 'batch', the window is empty and the inner temporal kernel is as new, and
\* the next update decides what it would decide on a new arbiter
ArbiterStartsOver ==
    (engine = "hybrid" /\ ret.op \in {"none", "reset"}) =>
        /\ mode = "batch"
        /\ recent_drifts = <<>>
        /\ tk = NewTemporalKernel
        /\ \A signals \in StreamInputs :
              Decision(hybrid_update(HybridSelf, cfg, signals))
                  = Decision(hybrid_update(FreshArbiter, cfg, signals))

\* an arbiter was reset after a batch fit that had seen drift, which had put
\* it in streaming mode
ArbiterStartsOverWitness ==
    /\ engine = "hybrid"
    /\ ret.op = "reset"
    /\ hist.seen >= 1
    /\ bk.last_weights # <<>>
    /\ BelowTenth(bk.last_weights[1])

\* C16: nothing the caller does with the list get_drift_history returned
\* (adding or removing entries, changing a field of an alert in it) changes
\* the alerts the kernel has recorded
HistoryReadOnly ==
    [][(engine = "temporal" /\ ret'.op = "caller") =>
          tk'.drift_alerts = tk.drift_alerts]_vars

\* the last update gave the drifting source a weight below drift_threshold
DriftingFlagged ==
    /\ ret.op = "update"
    /\ ret.status = "ok"
    /\ Len(arg.data) \in BelowThreshold(ret.weights[1], cfg.drift_threshold)

\* C17: when one source drifts linearly away from the others, which agree,
\* the updates from some timestep on all find the drifting source below
\* drift_threshold; the drift of the runs exceeds any tolerance well before
\* their end, so the last update of a run finds it
DriftStaysDetected ==
    (engine = "drift" /\ hist.calls = DriftSteps) => DriftingFlagged

\* a second engine of the same kind and configuration, freshly constructed
\* and given the first n batches of the log
RECURSIVE FitTwin(_, _), UpdateTwin(_, _), HybridTwin(_, _)
FitTwin(log, n) ==
    IF n = 0 THEN Raised("none", NewBatchKernel)
    ELSE fit(FitTwin(log, n - 1).self, cfg.alpha, cfg.method, log[n])

UpdateTwin(log, n) ==
    IF n = 0 THEN Raised("none", NewTemporalKernel)
    ELSE update(UpdateTwin(log, n - 1).self, cfg, log[n])

HybridTwin(log, n) ==
    IF n = 0 THEN Raised("none", FreshArbiter)
    ELSE hybrid_update(HybridTwin(log, n - 1).self, cfg, log[n])

SameOutcome(r) ==
    r.status = ret.status /\ r.K_w = ret.K_w /\ r.weights = ret.weights

Scales == {-1, 2, 3}

\* signals * c
Times(b, c) ==
    [kind |-> b.kind,
     data |-> [i \in 1..Len(b.data) |-> [t \in 1..Len(b.data[i]) |-> c * b.data[i][t]]]]

\* C19: fit on a valid batch with every source multiplied by a nonzero
\* constant c returns the weights it returns on the batch itself, also
\* when tau == 0, and c times the fused series
ScaleInvariant ==
    (engine = "batch" /\ ret.op = "fit" /\ ValidBatch(arg)) =>
        \A c \in Scales :
            /\ fit(NewBatchKernel, cfg.alpha, cfg.method, Times(arg, c)).weights
                  = ret.weights
            /\ fit(NewBatchKernel, cfg.alpha, cfg.method, Times(arg, c)).K_w
                  = <<Rat([t \in 1..Len(ret.K_w[1].num) |-> c * ret.K_w[1].num[t]],
                          ret.K_w[1].den)>>

\* a fit of four sources that weighted them unequally
ScaleInvariantWitness ==
    /\ engine = "batch"
    /\ ret.op = "fit"
    /\ ValidBatch(arg)
    /\ Len(arg.data) = 4
    /\ ret.weights[1] # UniformWeights(4)

\* C20: a constructor called with alpha <= 0, with a method other than
\* 'median' and 'trimmed_mean' (batch and temporal engines), or, for a
\* temporal engine, with beta outside (0,1), lambda_jitter < 0 or
\* drift_threshold outside (0,1), raises ValueError and yields no engine
ConfigurationValidated ==
    (/\ ret.op \in {"AdaptiveSpectralKernel", "TemporalAdaptiveKernel", "HybridKernel"}
     /\ \/ cfg.alpha.num <= 0
        \/ /\ ret.op # "HybridKernel"
           /\ cfg.method \notin {"median", "trimmed_mean"}
        \/ /\ ret.op = "TemporalAdaptiveKernel"
           /\ \/ cfg.beta.num <= 0
              \/ cfg.beta.num >= cfg.beta.den
              \/ cfg.lambda_jitter.num < 0
              \/ cfg.drift_threshold.num <= 0
              \/ cfg.drift_threshold.num >= cfg.drift_threshold.den)
        => (ret.status = "ValueError" /\ engine = "none")

\* C21: what fit returns for a batch (the fused series and the weights, or
\* the exception) is what a new AdaptiveSpectralKernel of the same alpha and
\* method returns for it, whatever calls the instance answered or refused
\* before, and what it records is what the new one would record
NoMemoryAcrossFits ==
    (engine = "batch" /\ ret.op = "fit") =>
        /\ SameOutcome(fit(NewBatchKernel, cfg.alpha, cfg.method, arg))
        /\ ret.status = "ok" =>
              bk = fit(NewBatchKernel, cfg.alpha, cfg.method, arg).self

\* the second call on an instance was a fit that weighted three sources
\* unequally
NoMemoryAcrossFitsWitness ==
    /\ engine = "batch"
    /\ ret.op = "fit"
    /\ ret.status = "ok"
    /\ hist.calls = 2
    /\ Len(arg.data) = 3
    /\ ret.weights[1] # UniformWeights(3)

\* engine i of the pair run alone: a new engine given, in their order, the
\* calls among the first n of the log that were made on engine i
RECURSIVE Alone(_, _, _)
Alone(log, i, n) ==
    IF n = 0
    THEN Raised("none", IF engine = "hybrid_pair" THEN FreshArbiter
                        ELSE NewTemporalKernel)
    ELSE IF log[n].to # i THEN Alone(log, i, n - 1)
    ELSE engine_call(engine, Alone(log, i, n - 1).self, cfg, log[n].op, log[n].signals)

FromCenter(b) == compute_distances(b.data, robust_center(cfg.method, b.data))

\* C23: fit takes the uniform fallback (tau == 0) only when every source is
\* at distance zero from the robust center, so that a source at a distance
\* that is not zero never gets the weight of a source at distance zero by it
FallbackOnlyWhenIdentical ==
    (engine = "batch" /\ ret.op = "fit" /\ ret.status = "ok"
        /\ bk.last_tau[1].num[1] = 0) =>
            \A i \in 1..Len(arg.data) : FromCenter(arg)[i] = 0

\* C24: the first update after construction or reset retains the robust
\* center of its batch (in median mode the median at every sample) as it
\* is; every later update retains beta times the retained center plus
\* (1 - beta) times the robust center of its batch, and the weights of the
\* call are those of the distances from the center it retains
CenterRecurrence ==
    [][UpdateReturned' =>
          /\ cfg.method = "median" =>
                \A t \in 1..Len(arg'.data[1]) :
                    2 * robust_center(cfg.method, arg'.data).num[t]
                        = robust_center(cfg.method, arg'.data).den
                            * Median2(Column(arg'.data, t))
          /\ tk.center_prev = <<>> =>
                tk'.center_prev = <<robust_center(cfg.method, arg'.data)>>
          /\ (/\ tk.center_prev # <<>>
              /\ Len(tk.center_prev[1].num) = Len(arg'.data[1])) =>
                \A t \in 1..Len(arg'.data[1]) :
                    tk'.center_prev[1].num[t] * cfg.beta.den * tk.center_prev[1].den
                            * robust_center(cfg.method, arg'.data).den
                        = tk'.center_prev[1].den
                            * (cfg.beta.num * tk.center_prev[1].num[t]
                                    * robust_center(cfg.method, arg'.data).den
                               + (cfg.beta.den - cfg.beta.num)
                                    * robust_center(cfg.method, arg'.data).num[t]
                                    * tk.center_prev[1].den)
          /\ ret'.weights =
                <<temporal_compute_weights(cfg.alpha,
                      compute_temporal_distances(cfg.lambda_jitter, arg'.data,
                                                 tk'.center_prev[1], tk.signals_prev))>>]_vars

\* a third update retained a center that is neither the one retained before
\* nor the robust center of its batch
CenterRecurrenceWitness ==
    /\ UpdateReturned
    /\ tk.timestep = 3
    /\ tk.center_prev # <<robust_center(cfg.method, arg.data)>>
    /\ Len(tk.center_prev[1].num) = Len(arg.data[1])
    /\ tk.center_prev[1].den > 2

\* the center c lies, at sample t, between the least and the greatest of
\* the values the sources in good have there
Between(c, b, good, t) ==
    /\ \E i \in good : b.data[i][t] * c.den <= c.num[t]
    /\ \E i \in good : c.num[t] <= b.data[i][t] * c.den

\* C25: whichever sources of a batch of N are taken to be corrupted, as long
\* as they are at most floor((N-1)/2), the median-mode center of both
\* engines lies at every sample between the least and the greatest value of
\* the other sources
MedianRobust ==
    (engine = "batch" /\ cfg.method = "median" /\ ret.op = "fit" /\ ValidBatch(arg)) =>
        \A corrupted \in SUBSET (1..Len(arg.data)) :
            Cardinality(corrupted) <= (Len(arg.data) - 1) \div 2 =>
                \A t \in 1..Len(arg.data[1]) :
                    /\ Between(robust_center_median(arg.data), arg,
                               (1..Len(arg.data)) \ corrupted, t)
                    /\ Between(robust_center("median", arg.data), arg,
                               (1..Len(arg.data)) \ corrupted, t)

\* a fit of five sources of which two are displaced by the same large
\* amount and three agree
MedianRobustWitness ==
    /\ engine = "batch"
    /\ cfg.method = "median"
    /\ ret.op = "fit"
    /\ ret.status = "ok"
    /\ Len(arg.data) = 5
    /\ Cardinality({i \in 1..5 : arg.data[i][1] = MaxVal}) = 2
    /\ robust_center_median(arg.data).num[1] = 0

Without(s, i) == SubSeq(s, 1, i - 1) \o SubSeq(s, i + 1, Len(s))

\* the values that are left when the least and the greatest are taken away
\* k times over
RECURSIVE DropExtremes(_, _)
DropExtremes(s, k) ==
    IF k = 0 THEN s
    ELSE LET lo   == CHOOSE i \in 1..Len(s) : \A j \in 1..Len(s) : s[i] <= s[j]
             rest == Without(s, lo)
             hi   == CHOOSE i \in 1..Len(rest) : \A j \in 1..Len(rest) : rest[i] >= rest[j]
         IN  DropExtremes(Without(rest, hi), k - 1)

\* C26: at every sample the trimmed-mean center is the mean of the values
\* left when the floor(0.2 N) least and the floor(0.2 N) greatest of the N
\* are discarded; nothing is discarded when N <= 4, at least one value is
\* left for every N >= 2, and the two engines compute the same center
TrimmedMean ==
    (engine = "batch" /\ cfg.method = "trimmed_mean" /\ ret.op = "fit"
        /\ ValidBatch(arg)) =>
        /\ trim_count(Len(arg.data)) = (2 * Len(arg.data)) \div 10
        /\ Len(arg.data) - 2 * trim_count(Len(arg.data)) >= 1
        /\ Len(arg.data) <= 4 =>
              \A t \in 1..Len(arg.data[1]) :
                  robust_center_trimmed_mean(arg.data).num[t] * Len(arg.data)
                      = robust_center_trimmed_mean(arg.data).den
                          * SumSeq(Column(arg.data, t))
        /\ \A t \in 1..Len(arg.data[1]) :
              robust_center_trimmed_mean(arg.data).num[t]
                      * (Len(arg.data) - 2 * ((2 * Len(arg.data)) \div 10))
                  = robust_center_trimmed_mean(arg.data).den
                      * SumSeq(DropExtremes(Column(arg.data, t),
                                            (2 * Len(arg.data)) \div 10))
        /\ robust_center("trimmed_mean", arg.data)
              = robust_center_trimmed_mean(arg.data)

\* a fit of five sources, one of them displaced: the trimmed mean is not the
\* mean
TrimmedMeanWitness ==
    /\ engine = "batch"
    /\ cfg.method = "trimmed_mean"
    /\ ret.op = "fit"
    /\ ret.status = "ok"
    /\ Len(arg.data) = 5
    /\ Cardinality({i \in 1..5 : arg.data[i][1] = MaxVal}) = 1
    /\ robust_center_trimmed_mean(arg.data).num[1] = 0

\* C27: the first update after construction or reset has no jitter term and
\* squares its distances once, so it gives what fit gives for the same batch
\* with the same alpha and method: the same fused series and weights, or the
\* same refusal
FirstUpdateIsFit ==
    [][(engine = "temporal" /\ ret'.op = "update" /\ tk.timestep = 0) =>
          /\ ret'.status = fit(NewBatchKernel, cfg.alpha, cfg.method, arg').status
          /\ ret'.K_w = fit(NewBatchKernel, cfg.alpha, cfg.method, arg').K_w
          /\ ret'.weights = fit(NewBatchKernel, cfg.alpha, cfg.method, arg').weights]_vars

\* C28: the window of a HybridKernel never holds more than
\* drift_detection_window entries, and after the k-th successful update
\* since construction or reset it holds the drift outcomes of the last
\* min(k, window) of them, the oldest first
WindowHoldsRecent ==
    engine = "hybrid" =>
        /\ Len(recent_drifts) <= cfg.drift_detection_window
        /\ Succeeded =>
              /\ Len(recent_drifts) = MinOf(hist.k, cfg.drift_detection_window)
              /\ recent_drifts =
                    SubSeq(hist.drifts,
                           hist.k - MinOf(hist.k, cfg.drift_detection_window) + 1,
                           hist.k)

\* C29: the alert appended by the k-th successful update since construction
\* or reset records timestep k; so the timesteps in the history increase
\* strictly, each is between 1 and the kernel's timestep, and there are at
\* most timestep alerts
AlertTimesteps ==
    engine = "temporal" =>
        /\ (UpdateReturned /\ BelowThreshold(ret.weights[1], cfg.drift_threshold) # {}) =>
              tk.drift_alerts[Len(tk.drift_alerts)].timestep = hist.k
        /\ \A i \in 1..Len(tk.drift_alerts) :
              /\ tk.drift_alerts[i].timestep >= 1
              /\ tk.drift_alerts[i].timestep <= tk.timestep
              /\ i > 1 => tk.drift_alerts[i - 1].timestep < tk.drift_alerts[i].timestep
        /\ Len(tk.drift_alerts) <= tk.timestep

\* the history holds two alerts with an update without alert between them
AlertTimestepsWitness ==
    /\ UpdateReturned
    /\ Len(tk.drift_alerts) = 2
    /\ tk.drift_alerts[1].timestep = 1
    /\ tk.drift_alerts[2].timestep = 3
    /\ tk.timestep = 3

\* C30: an update with N identical sources, at any call of a stream of such
\* batches and for any N, returns the weight 1/N for every source, finds no
\* drift, and appends no alert
AgreementRaisesNoDrift ==
    (engine = "agree" /\ ret.op = "update") =>
        /\ ret.status = "ok"
        /\ ret.weights[1] = UniformWeights(Len(arg.data))
        /\ ~detect_drift(ret.weights[1], cfg.drift_threshold)
        /\ tk.drift_alerts = <<>>

====
